---- MODULE Spec2Model ----
(***************************************************************************)
(* Dynamic level-of-detail selection of the Voyager explorer.              *)
(*                                                                         *)
(* The model covers the LOD pass embedded in CVOrbitNavigation.tick        *)
(* (score, classify, allocate under the texture budget, apply) and the two *)
(* versions of CVDerivativesController.tock.  The importance scorer is     *)
(* also applied on its own to NDC boxes of every kind, and                 *)
(* CVDocument.openDocument is modelled with the state it writes.           *)
(*                                                                         *)
(* Numbers.  NDC coordinates are integers counted in 1/NdcUnit, weights    *)
(* are exact fractions [n, d] in lowest terms, and the classifier's        *)
(* thresholds are integers counted in 1/1000.  The source computes with    *)
(* IEEE doubles; the model computes the same expressions exactly.  NaN is  *)
(* the fraction [0, 0]: it compares as neither less nor greater than any   *)
(* number.                                                                 *)
(***************************************************************************)
EXTENDS Integers, Sequences, FiniteSets, TLC

VARIABLES
    quality,      \* quality[m]: model.ins.quality.value of the m-th CVModel2
    ndc,          \* ndc[m]: NDC box of model m under the current camera
    derivatives,  \* derivatives[m]: qualities of the Web3D derivatives of m
    enabled,      \* ins.enabled.value of the controller
    hasCamera,    \* the scene has an active camera component
    op,           \* the operation that produced this state
    result,       \* what the last pass returned: "true", "false", "undefined"
    repeated,     \* the last pass re-ran the LOD pass on an unchanged scene
    before,       \* quality at the start of the last pass
    models,       \* the `models` array of the last pass, as the pass left it
    texSize,      \* the allocator's running total at the end of the last pass
    selected,     \* selected[m]: what derivatives.select returned for m
    written,      \* the models whose quality was written by setValue
    scoreBoxes,   \* the NDC boxes handed to the importance scorer
    scores,       \* what the scorer computed for them, << >> before it ran
    nodeTree,     \* the nodes below the root scene of the CVDocument
    title,        \* ins.title.value of the document, "null" for null
    copyright,    \* ins.copyright.value
    assetPath,    \* outs.assetPath.value
    name,         \* the name of the document component
    ref_id,       \* the id of the document data last opened
    meta,         \* this._meta: "null" or the meta component of the root
    loadListener, \* a "load" listener of openDocument waits on the meta
    thrown,       \* the error the last document operation threw, or "none"
    docText,      \* what deflate returns for the active document
    listening,    \* onDocument put its listener on outs.assetPath
    last_str,     \* CVStoryApplication._last_str
    last_hash,    \* CVStoryApplication._last_hash
    hasSubtle,    \* window.crypto.subtle exists (secure context)
    returnValue,  \* event.returnValue of the last beforeunload event
    appOp,        \* the last operation on the story application
    data,         \* CVMeta.data of the original component
    deflated,     \* what deflate returned for it last
    freshData,    \* CVMeta.data of the fresh component inflate ran on
    metaOp,       \* the last operation on the meta components
    state,        \* CVTape.outs.state
    startMarker,  \* CVTape.startMarker: style, visible, position
    endMarker,    \* CVTape.endMarker
    line,         \* CVTape.line.visible
    startPosition, \* CVTape.ins.startPosition
    endPosition,  \* CVTape.ins.endPosition
    tapeEnabled,  \* CVTape.ins.enabled
    visible,      \* CVTape.ins.visible
    markerStyle,  \* CVTape.ins.markerStyle
    tapeOp,       \* the last operation on the tape
    propertyValue, \* PropertyTags.property.value, a string
    inputValue,   \* PropertyTags.inputValue
    wasSelected,  \* the argument of the last onAddTag was a selected tag
    tagOp         \* the last operation on the tags

\* the state of the LOD passes
lodVars == << quality, ndc, derivatives, enabled, hasCamera, op, result,
              repeated, before, models, texSize, selected, written >>

\* the state of the scorer applied on its own
scorerVars == << scoreBoxes, scores >>

\* the state of the CVDocument
docVars == << nodeTree, title, copyright, assetPath, name, ref_id, meta,
              loadListener, thrown >>

\* the state of the CVStoryApplication
appVars == << docText, listening, last_str, last_hash, hasSubtle,
              returnValue, appOp >>

\* the state of the components of the story user interface
\* the state of a CVMeta and of the fresh CVMeta its data is copied to
metaVars == << data, deflated, freshData, metaOp >>

\* the state of the CVTape
tapeVars == << state, startMarker, endMarker, line, startPosition,
               endPosition, tapeEnabled, visible, markerStyle, tapeOp >>

\* the state of the PropertyTags element and of its property
tagVars == << propertyValue, inputValue, wasSelected, tagOp >>

uiVars == << appVars, metaVars, tapeVars, tagVars >>

vars == << lodVars, scorerVars, docVars, uiVars >>

----------------------------------------------------------------------------
(* Bounds of the model.                                                    *)

\* largest scene of the specification Spec
MaxModels == 2

\* largest scene of the specification SpecUnloaded
UnloadedModels == 3

\* largest scene of the specification SpecCrowd
CrowdModels == 17

\* size of the scenes of the specification SpecBulk: the smallest scene
\* whose thumbnails and reservation together exceed the texture budget
BulkModels == 337

\* size of the largest scenes of SpecBulk: the smallest scene whose
\* reservation alone exceeds the texture budget
CrammedModels == 505

\* longest string given to onAddTag and onRemoveTag, and longest property
\* value that onAddTag still extends
MaxTagLen == 3

MaxValueLen == 3

\* size of the largest scenes of SpecRanked: more models than the ten ranks
\* that tock serves above Thumb
RankedModels == 12

----------------------------------------------------------------------------
(* EDerivativeQuality, in the order the passes rely on.                    *)

Thumb == 0

Low == 1

Medium == 2

High == 3

Quality == Thumb .. High

sizeMap(q) ==
    CASE q = Thumb  -> 512 * 512
      [] q = Low    -> 1024 * 1024
      [] q = Medium -> 2048 * 2048
      [] q = High   -> 4096 * 4096

----------------------------------------------------------------------------
(* Exact arithmetic on non-negative fractions.                             *)

Max2(a, b) == IF a < b THEN b ELSE a

Min2(a, b) == IF a < b THEN a ELSE b

RECURSIVE GCD(_, _)
GCD(a, b) == IF b = 0 THEN a ELSE GCD(b, a % b)

Frac(n, d) ==
    IF n = 0 THEN [n |-> 0, d |-> 1]
    ELSE LET g == GCD(n, d) IN [n |-> n \div g, d |-> d \div g]

FracMul(a, b) ==
    LET g1 == GCD(a.n, b.d)
        g2 == GCD(b.n, a.d)
    IN  IF a.n = 0 \/ b.n = 0 THEN [n |-> 0, d |-> 1]
        ELSE [n |-> (a.n \div g1) * (b.n \div g2),
              d |-> (a.d \div g2) * (b.d \div g1)]

FracLess(a, b) == a.n * b.d < b.n * a.d

\* "!weight": holds of 0 and of NaN
FracZero(a) == a.n = 0

NaN == [n |-> 0, d |-> 0]

----------------------------------------------------------------------------
(* NDC boxes: what projecting the eight corners of a model's bounding box  *)
(* with the active camera yields.  The visible range is                    *)
(* [-NdcUnit, NdcUnit] on each axis.                                       *)

NdcUnit == 10

Box(x0, x1, y0, y1, z0, z1) ==
    [xmin |-> x0, xmax |-> x1, ymin |-> y0, ymax |-> y1, zmin |-> z0, zmax |-> z1]

\* beyond the far plane, centred: weight 0
BoxBehind == Box(-5, 5, -5, 5, 20, 30)
\* centred boxes inside the depth range, named after relSize in 1/1000
Box010 == Box(-1, 1, -1, 1, -5, 5)
Box040 == Box(-2, 2, -2, 2, -5, 5)
Box095 == Box(-1, 1, -9, 10, -5, 5)
Box105 == Box(-3, 3, -3, 4, -5, 5)
Box200 == Box(-4, 4, -5, 5, -5, 5)
Box310 == Box(-2, 2, -15, 16, -5, 5)
Box450 == Box(-5, 5, -9, 9, -5, 5)
Box500 == Box(-5, 5, -10, 10, -5, 5)

\* the NDC box of a model whose local bounding box is empty: the corners
\* of an empty Box3 are infinite, Vector3.project multiplies them by the
\* zeros of the camera matrices and expandByPoint keeps the NaN it is given,
\* so every coordinate of the box is NaN
BoxNaN == [nan |-> TRUE]

\* the boxes the scenes of Spec are made of
Boxes == { BoxBehind, Box010, Box040, Box095, Box105, Box200, Box310, Box500 }

\* the boxes the scenes of SpecCrowd are made of

CrowdBoxes == { BoxBehind, Box095, Box310, Box450, Box500 }

----------------------------------------------------------------------------
(* Importance scorer.                                                      *)

\* the centre weight cut to 0 for a box beyond the edge of the screen
maxCenterWeightClipped(b) ==
    LET dx == Max2(Max2(-b.xmax, b.xmin), 0)
        dy == Max2(Max2(-b.ymax, b.ymin), 0)
    IN  IF dx > NdcUnit \/ dy > NdcUnit THEN Frac(0, 1)
        ELSE Frac(NdcUnit, NdcUnit + dx + dy)

\* the centre weight measured to the farthest edge of the box
maxCenterWeightFarthest(b) ==
    LET dx == Max2(Max2(b.xmax, -b.xmin), 0)
        dy == Max2(Max2(b.ymax, -b.ymin), 0)
    IN  Frac(NdcUnit, NdcUnit + dx + dy)

\* the centre weight without the sign change of the upper edges
maxCenterWeightUnsigned(b) ==
    LET dx == Max2(Max2(b.xmax, b.xmin), 0)
        dy == Max2(Max2(b.ymax, b.ymin), 0)
    IN  Frac(NdcUnit, NdcUnit + dx + dy)

maxCenterWeight(b) ==
    LET dx == Max2(Max2(-b.xmax, b.xmin), 0)
        dy == Max2(Max2(-b.ymax, b.ymin), 0)
    IN  Frac(NdcUnit, NdcUnit + dx + dy)

depthWeight(min, max) ==
    IF max < -NdcUnit \/ NdcUnit < min THEN Frac(0, 1)
    ELSE IF -NdcUnit < min /\ max < NdcUnit THEN Frac(1, 1)
    ELSE LET D == Max2(NdcUnit, max - NdcUnit) - Min2(-NdcUnit, min + NdcUnit)
         IN  Frac(D - 2 * NdcUnit, D)

relSizeOf(b) ==
    IF b = BoxNaN THEN NaN
    ELSE Frac((b.xmax - b.xmin) * (b.ymax - b.ymin), 4 * NdcUnit * NdcUnit)

clampSize(size) == IF FracLess(Frac(1, 1), size) THEN Frac(1, 1) ELSE size

\* weight as CVOrbitNavigation.tick computes it
weightOf(b) ==
    IF b = BoxNaN THEN NaN
    ELSE FracMul(FracMul(relSizeOf(b), maxCenterWeight(b)),
                 depthWeight(b.zmin, b.zmax))

\* weight as CVDerivativesController.tock computes it
tockWeightOf(b) ==
    IF b = BoxNaN THEN NaN
    ELSE FracMul(FracMul(clampSize(relSizeOf(b)), maxCenterWeight(b)),
                 depthWeight(b.zmin, b.zmax))

----------------------------------------------------------------------------
(* Quality classifier.                                                     *)

hyst == 20

steps == << <<30, Thumb>>, <<100, Low>>, <<300, Medium>> >>

RECURSIVE findStep(_, _, _)
findStep(i, current, relSize) ==
    IF i > Len(steps) THEN High
    ELSE LET q    == steps[i][2]
             size == steps[i][1] + (IF current <= q THEN hyst ELSE 0)
         IN  IF FracLess(relSize, Frac(size, 1000)) THEN q
             ELSE findStep(i + 1, current, relSize)

\* the classifier with the margin on the steps at or below the current
\* quality
RECURSIVE findStepBelow(_, _, _)
findStepBelow(i, current, relSize) ==
    IF i > Len(steps) THEN High
    ELSE LET q    == steps[i][2]
             size == steps[i][1] + (IF q <= current THEN hyst ELSE 0)
         IN  IF FracLess(relSize, Frac(size, 1000)) THEN q
             ELSE findStepBelow(i + 1, current, relSize)

getQualityBelow(current, relSize) == findStepBelow(1, current, relSize)

\* the classifier without the margin
RECURSIVE findStepPlain(_, _)
findStepPlain(i, relSize) ==
    IF i > Len(steps) THEN High
    ELSE IF FracLess(relSize, Frac(steps[i][1], 1000)) THEN steps[i][2]
    ELSE findStepPlain(i + 1, relSize)

getQualityPlain(current, relSize) == findStepPlain(1, relSize)

\* the classifier with the margin taken off the steps instead of added
RECURSIVE findStepEager(_, _, _)
findStepEager(i, current, relSize) ==
    IF i > Len(steps) THEN High
    ELSE LET q    == steps[i][2]
             size == steps[i][1] - (IF current <= q THEN hyst ELSE 0)
         IN  IF FracLess(relSize, Frac(size, 1000)) THEN q
             ELSE findStepEager(i + 1, current, relSize)

getQualityEager(current, relSize) == findStepEager(1, current, relSize)

\* the classifier with the margin on the steps strictly below the current
\* quality
RECURSIVE findStepAbove(_, _, _)
findStepAbove(i, current, relSize) ==
    IF i > Len(steps) THEN High
    ELSE LET q    == steps[i][2]
             size == steps[i][1] + (IF q < current THEN hyst ELSE 0)
         IN  IF FracLess(relSize, Frac(size, 1000)) THEN q
             ELSE findStepAbove(i + 1, current, relSize)

getQualityAbove(current, relSize) == findStepAbove(1, current, relSize)

getQuality(current, relSize) == findStep(1, current, relSize)

----------------------------------------------------------------------------
(* The `models` array of a pass.  An entry carries the fields of the       *)
(* source (model, weight, relSize, quality) and `proposed`, the quality    *)
(* the entry was created with, which the source overwrites in place.       *)

Entry(m, w, rs, q) ==
    [model |-> m, weight |-> w, relSize |-> rs, quality |-> q, proposed |-> q]

\* Array.prototype.sort is stable.  With the comparator a.weight - b.weight
\* the entries of the smallest weight come first, in the order they have in
\* the array, followed by the other entries sorted in the same way.
weightsOf(s) == { s[i].weight : i \in 1 .. Len(s) }

withWeight(s, w) == SelectSeq(s, LAMBDA e : e.weight = w)

RECURSIVE ascendingBy(_, _)
ascendingBy(s, ws) ==
    IF ws = {} THEN << >>
    ELSE LET w == CHOOSE w \in ws : \A v \in ws : ~ FracLess(v, w)
         IN  withWeight(s, w) \o ascendingBy(s, ws \ {w})

sortAscending(s) ==
    CHOOSE sorted \in { ascendingBy(t, weightsOf(t)) : t \in {s} } : TRUE

\* the same with the comparator b.weight - a.weight: the largest weight
\* first
RECURSIVE descendingBy(_, _)
descendingBy(s, ws) ==
    IF ws = {} THEN << >>
    ELSE LET w == CHOOSE w \in ws : \A v \in ws : ~ FracLess(w, v)
         IN  withWeight(s, w) \o descendingBy(s, ws \ {w})

sortDescending(s) ==
    CHOOSE sorted \in { descendingBy(t, weightsOf(t)) : t \in {s} } : TRUE

\* the orders of the entries of s
permuted(s) ==
    { [i \in 1 .. Len(s) |-> s[p[i]]] : p \in Permutations(1 .. Len(s)) }

\* A comparator that returns NaN counts as returning 0.  With a NaN weight
\* in the array every comparison with it is a tie: when the other weights
\* are equal too the stable sort leaves the array as it is, otherwise the
\* comparator is not consistent and the order is left to the engine.
sortedAscending(s) ==
    IF NaN \notin weightsOf(s) THEN { sortAscending(s) }
    ELSE IF Cardinality(weightsOf(s)) <= 2 THEN { s }
    ELSE permuted(s)

sortedDescending(s) ==
    IF NaN \notin weightsOf(s) THEN { sortDescending(s) }
    ELSE IF Cardinality(weightsOf(s)) <= 2 THEN { s }
    ELSE permuted(s)

----------------------------------------------------------------------------
(* Budget allocator of CVOrbitNavigation.tick.                             *)

Budget == 16384 * 16384

initialReserved(n) == 2 * n * 512 * 512 + 1024 * 1024 * 4

\* the loop with the reservation added to the budget instead of taken off it
RECURSIVE downgradeAdded(_, _, _)
downgradeAdded(q, tex, reserved) ==
    IF (Budget + reserved) < tex + sizeMap(q) /\ Thumb < q
    THEN downgradeAdded(q - 1, tex, reserved)
    ELSE q

\* the loop followed by a step up when the next quality would fit
RECURSIVE downgradeOrFill(_, _, _)
downgradeOrFill(q, tex, reserved) ==
    IF (Budget - reserved) < tex + sizeMap(q) /\ Thumb < q
    THEN downgradeOrFill(q - 1, tex, reserved)
    ELSE IF q < High /\ tex + sizeMap(q + 1) <= (Budget - reserved)
    THEN q + 1
    ELSE q

\* the while loop: one step down while the entry does not fit
RECURSIVE downgrade(_, _, _)
downgrade(q, tex, reserved) ==
    IF (Budget - reserved) < tex + sizeMap(q) /\ Thumb < q
    THEN downgrade(q - 1, tex, reserved)
    ELSE q

\* the iteration without the release of the entry's share of the
\* reservation
allocateEntryHeld(st, i) ==
    LET r == st.reserved
        q == downgrade(st.models[i].quality, st.texSize, r)
    IN  [models   |-> [st.models EXCEPT ![i].quality = q],
         texSize  |-> st.texSize + sizeMap(q),
         reserved |-> r]

\* the iteration with twice the entry's share of the reservation released
allocateEntryEager(st, i) ==
    LET r == st.reserved - 2 * 512 * 512
        q == downgrade(st.models[i].quality, st.texSize, r)
    IN  [models   |-> [st.models EXCEPT ![i].quality = q],
         texSize  |-> st.texSize + sizeMap(q),
         reserved |-> r]

\* one iteration of models.forEach: st carries the array, texSize and
\* reserved
allocateEntry(st, i) ==
    LET r == st.reserved - 512 * 512
        q == downgrade(st.models[i].quality, st.texSize, r)
    IN  [models   |-> [st.models EXCEPT ![i].quality = q],
         texSize  |-> st.texSize + sizeMap(q),
         reserved |-> r]

\* the iterations lo .. hi of models.forEach, in order; the range is split
\* in two halves, the second starting from the state the first one left
RECURSIVE allocateRange(_, _, _)
allocateRange(st, lo, hi) ==
    IF lo > hi THEN st
    ELSE IF lo = hi THEN allocateEntry(st, lo)
    ELSE CHOOSE out \in
            { allocateRange(half, (lo + hi) \div 2 + 1, hi) :
                half \in { allocateRange(st, lo, (lo + hi) \div 2) } } :
            TRUE

allocate(ms) ==
    CHOOSE out \in
        { allocateRange(st, 1, Len(ms)) :
            st \in { [models |-> ms, texSize |-> 0,
                      reserved |-> initialReserved(Len(ms))] } } :
        TRUE

----------------------------------------------------------------------------
(* The derivative collaborator, model.derivatives.select(Web3D, q): the    *)
(* derivative of the requested quality when the model has one, otherwise   *)
(* a best match among the derivatives it has, null when it has none.       *)

Null == -1

NoCall == -2

DerivativeSets == { Quality, {}, {High}, {Low, High} }

select(derivs, q) ==
    IF q \in derivs THEN {q}
    ELSE IF derivs = {} THEN {Null}
    ELSE derivs

\* the outcomes of the select calls of one pass for the models lo .. hi,
\* model by model: called[m] tells whether the pass calls select for m,
\* wanted[m] with what
RECURSIVE selectionsRange(_, _, _, _)
selectionsRange(lo, hi, called, wanted) ==
    IF lo > hi THEN { << >> }
    ELSE IF lo = hi THEN
        { << r >> : r \in (IF called[lo] THEN select(derivatives[lo], wanted[lo])
                           ELSE {NoCall}) }
    ELSE { s \o t :
             s \in selectionsRange(lo, (lo + hi) \div 2, called, wanted),
             t \in selectionsRange((lo + hi) \div 2 + 1, hi, called, wanted) }

\* the same for the models 1 .. n
selections(n, called, wanted) ==
    UNION { selectionsRange(1, n, c, w) : c \in {called}, w \in {wanted} }

\* the write without the comparison with the current quality
setsAnyValue(current, best) == best # Null /\ best # NoCall

\* the write of the apply step: setValue(bestMatchDerivative.data.quality)
setsValue(current, best) == best # Null /\ best # NoCall /\ best # current

applied(current, sel) ==
    [m \in DOMAIN current |->
        IF setsValue(current[m], sel[m]) THEN sel[m] ELSE current[m]]

writes(current, sel) ==
    { m \in DOMAIN current : setsValue(current[m], sel[m]) }

N == Len(quality)

\* position of model m in an array of entries
indexOf(ms, m) == CHOOSE i \in 1 .. Len(ms) : ms[i].model = m

noPass(o, r) ==
    /\ op' = o
    /\ result' = r
    /\ repeated' = FALSE
    /\ before' = quality
    /\ models' = << >>
    /\ texSize' = 0
    /\ selected' = [m \in 1 .. N |-> NoCall]
    /\ written' = {}
    /\ UNCHANGED << scorerVars, docVars, uiVars >>

----------------------------------------------------------------------------
(* CVOrbitNavigation.tick.  `updated` is what controller.updateCamera      *)
(* returns: the camera moved, or the update was forced.                    *)

\* the check that leaves every invisible model alone
skipsInvisible(current, q, weight) ==
    q = current \/ FracZero(weight)

\* the test with the comparison reversed: downgrades of invisible models
\* are skipped
skipsDowngrade(current, q, weight) ==
    q = current \/ (q < current /\ FracZero(weight))

\* "Don't upgrade when not visible, but do downgrade"
skipsApply(current, q, weight) ==
    q = current \/ (current < q /\ FracZero(weight))

\* the quality the apply step wants for model m, and whether it calls
\* select for it
applyWanted(ms) == [m \in 1 .. N |-> ms[indexOf(ms, m)].quality]

applyCalls(ms) ==
    [m \in 1 .. N |->
        ~ skipsApply(quality[m], ms[indexOf(ms, m)].quality,
                     ms[indexOf(ms, m)].weight)]

lodEntry(m) ==
    LET w == weightOf(ndc[m])
    IN  Entry(m, w, relSizeOf(ndc[m]), getQuality(quality[m], w))

\* the dynamic LOD handling: score and classify, sort, allocate, apply
lodPass ==
    \E entries \in { [m \in 1 .. N |-> lodEntry(m)] } :
    \E sorted \in sortedAscending(entries) :
    \E alloc \in { allocate(sorted) } :
    \E sel \in selections(N, applyCalls(alloc.models), applyWanted(alloc.models)) :
        /\ quality' = applied(quality, sel)
        /\ written' = writes(quality, sel)
        /\ selected' = sel
        /\ models' = alloc.models
        /\ texSize' = alloc.texSize
        /\ before' = quality
        /\ repeated' = (op = "tick" /\ result = "true")
        /\ op' = "tick"
        /\ result' = "true"
        /\ UNCHANGED << ndc, derivatives, enabled, hasCamera >>
        /\ UNCHANGED << scorerVars, docVars, uiVars >>

\* tick without the check of ins.enabled and of the camera component
tickUnguarded(updated) ==
    IF ~ updated THEN
        /\ noPass("tick", "false")
        /\ UNCHANGED << quality, ndc, derivatives, enabled, hasCamera >>
    ELSE lodPass

tick(updated) ==
    IF ~ enabled \/ ~ hasCamera THEN
        /\ noPass("tick", "undefined")
        /\ UNCHANGED << quality, ndc, derivatives, enabled, hasCamera >>
    ELSE IF ~ updated THEN
        /\ noPass("tick", "false")
        /\ UNCHANGED << quality, ndc, derivatives, enabled, hasCamera >>
    ELSE lodPass

----------------------------------------------------------------------------
(* CVDerivativesController.tock, the weight-ranked version.                *)

\* the quotas with the last rank of each included
rankQualityInclusive(i) ==
    IF i <= 2 THEN High
    ELSE IF i <= 5 THEN Medium
    ELSE IF i <= 10 THEN Low
    ELSE Thumb

\* the quality requested for the entry at (zero-based) rank i
rankQuality(i) ==
    IF i < 2 THEN High
    ELSE IF i < 5 THEN Medium
    ELSE IF i < 10 THEN Low
    ELSE Thumb

tockEntry(m) == Entry(m, tockWeightOf(ndc[m]), relSizeOf(ndc[m]), Thumb)

rankedModels(sorted) ==
    [i \in 1 .. N |->
        [sorted[i] EXCEPT !.quality = rankQuality(i - 1),
                          !.proposed = rankQuality(i - 1)]]

\* "if(quality === current) continue"
tockCalls(ms) == [m \in 1 .. N |-> ms[indexOf(ms, m)].quality # quality[m]]

\* the loop both versions of tock run over the qualities they request
tockApply(o, ms) ==
    \E sel \in selections(N, tockCalls(ms), applyWanted(ms)) :
          /\ quality' = applied(quality, sel)
          /\ written' = writes(quality, sel)
          /\ selected' = sel
          /\ models' = ms
          /\ texSize' = 0
          /\ before' = quality
          /\ repeated' = FALSE
          /\ op' = o
          /\ result' = (IF writes(quality, sel) # {} THEN "true" ELSE "false")
          /\ UNCHANGED << ndc, derivatives, enabled, hasCamera >>
          /\ UNCHANGED << scorerVars, docVars, uiVars >>

tock ==
    IF ~ enabled \/ ~ hasCamera THEN
        /\ noPass("tock", "false")
        /\ UNCHANGED << quality, ndc, derivatives, enabled, hasCamera >>
    ELSE \E sorted \in sortedDescending([m \in 1 .. N |-> tockEntry(m)]) :
            tockApply("tock", rankedModels(sorted))

(* CVDerivativesController.tock, the version that requests High for every  *)
(* model.                                                                  *)

highModels ==
    [m \in 1 .. N |-> Entry(m, Frac(0, 1), Frac(0, 1), High)]

tockHigh ==
    IF ~ enabled \/ ~ hasCamera THEN
        /\ noPass("tockHigh", "false")
        /\ UNCHANGED << quality, ndc, derivatives, enabled, hasCamera >>
    ELSE tockApply("tockHigh", highModels)

----------------------------------------------------------------------------
(* The environment: the scene graph and the user interface.                *)

\* the camera or model m moved: m projects to another NDC box
setBox(m, b) ==
    /\ ndc[m] # b
    /\ ndc' = [ndc EXCEPT ![m] = b]
    /\ noPass("env", "none")
    /\ UNCHANGED << quality, derivatives, enabled, hasCamera >>

\* ins.enabled is set
setEnabled(v) ==
    /\ enabled # v
    /\ enabled' = v
    /\ noPass("env", "none")
    /\ UNCHANGED << quality, ndc, derivatives, hasCamera >>

\* the scene's active camera component is set or removed
setCamera(v) ==
    /\ hasCamera # v
    /\ hasCamera' = v
    /\ noPass("env", "none")
    /\ UNCHANGED << quality, ndc, derivatives, enabled >>

----------------------------------------------------------------------------
(* Specification Spec: scenes of up to MaxModels models whose models carry *)
(* the same derivative qualities, under every operation.                   *)

observedNothing(n) ==
    /\ op = "init"
    /\ result = "none"
    /\ repeated = FALSE
    /\ before = quality
    /\ models = << >>
    /\ texSize = 0
    /\ selected = [m \in 1 .. n |-> NoCall]
    /\ written = {}

\* the scorer has not been applied on its own
scorerIdle ==
    /\ scoreBoxes = << >>
    /\ scores = << >>

\* a scene without models
noScene ==
    /\ quality = << >>
    /\ ndc = << >>
    /\ derivatives = << >>
    /\ enabled = TRUE
    /\ hasCamera = TRUE
    /\ observedNothing(0)

\* a CVDocument after construction: the root scene has no children, the
\* properties have their presets
documentCreated ==
    /\ nodeTree = {}
    /\ title = ""
    /\ copyright = ""
    /\ assetPath = "scene.svx.json"
    /\ name = ""
    /\ ref_id = -1
    /\ meta = "null"
    /\ loadListener = FALSE
    /\ thrown = "none"

----------------------------------------------------------------------------
(* CVStoryApplication: the unload prompt.                                  *)

\* an ArrayBuffer that is null
NullBuffer == [null |-> TRUE]

\* what deflate can return for the active document
JsonTexts == 1 .. 4

DigestLength == 20

\* crypto.subtle.digest("SHA-1", ...): an ArrayBuffer of 20 bytes, different
\* for the different texts of the model
digest(json) ==
    [byteLength |-> DigestLength,
     bytes      |-> [idx \in 0 .. DigestLength - 1 |->
                        (json * (idx + 7)) % 256]]

\* hash(): "await window.crypto.subtle?.digest("SHA-1", uint8Array) ?? null"
hash(json) == IF hasSubtle THEN digest(json) ELSE NullBuffer

Undefined == -3

\* buffer[idx] of an ArrayBuffer: the bytes are reached through a typed
\* array only, the buffer itself has no indexed property
elementAt(buffer, idx) == Undefined

isChanged(current_hash) ==
    IF last_hash = NullBuffer \/ current_hash = NullBuffer THEN TRUE
    ELSE \E idx \in 0 .. last_hash.byteLength - 1 :
            elementAt(last_hash, idx) # elementAt(current_hash, idx)

\* the state of the application after create()
applicationCreated ==
    /\ docText \in JsonTexts
    /\ listening = FALSE
    /\ last_str = 0
    /\ last_hash = NullBuffer
    /\ hasSubtle \in BOOLEAN
    /\ returnValue = ""
    /\ appOp = "create"

\* activeDocument changes: the listener is put on the document's assetPath
onDocument ==
    /\ listening' = TRUE
    /\ appOp' = "onDocument"
    /\ UNCHANGED << docText, last_str, last_hash, hasSubtle, returnValue >>
    /\ UNCHANGED << lodVars, scorerVars, docVars, metaVars, tapeVars, tagVars >>

\* the listener of outs.assetPath: the serialization and its hash are
\* recorded
assetPathChanged ==
    /\ listening
    /\ last_str' = docText
    /\ last_hash' = hash(docText)
    /\ appOp' = "assetPath"
    /\ UNCHANGED << docText, listening, hasSubtle, returnValue >>
    /\ UNCHANGED << lodVars, scorerVars, docVars, metaVars, tapeVars, tagVars >>

\* the user edits the document: deflate returns another text
editDocument(json) ==
    /\ json # docText
    /\ docText' = json
    /\ appOp' = "edit"
    /\ UNCHANGED << listening, last_str, last_hash, hasSubtle, returnValue >>
    /\ UNCHANGED << lodVars, scorerVars, docVars, metaVars, tapeVars, tagVars >>

\* the handler of a new beforeunload event
beforeUnload ==
    /\ returnValue' = (IF isChanged(hash(docText)) THEN "x" ELSE "")
    /\ appOp' = "beforeUnload"
    /\ UNCHANGED << docText, listening, last_str, last_hash, hasSubtle >>
    /\ UNCHANGED << lodVars, scorerVars, docVars, metaVars, tapeVars, tagVars >>

----------------------------------------------------------------------------
(* CVMeta.  A dictionary is a function on Keys; a key that the dictionary  *)
(* does not own maps to Absent, which is also what reading it returns      *)
(* (undefined).  A value is a number or a dictionary.                      *)

Keys == { "data", "title" }

Absent == [absent |-> TRUE]

Numbers == { [num |-> 1], [num |-> 2] }

\* {}
emptyObject == [k \in Keys |-> Absent]

\* Object.keys(d)
keysOf(d) == { k \in Keys : d[k] # Absent }

\* null, for a dictionary or a wrapper
NullData == [null |-> TRUE]

\* no wrapper: deflate has not run
NoJson == [none |-> TRUE]

\* d is falsy
falsy(d) == d = NullData \/ d = Absent

hasData(d) == keysOf(d) # {}

\* Object.assign({}, this.data), or null
toData(d) == IF hasData(d) THEN d ELSE NullData

\* { data } for the data of the component, or null
deflate(d) ==
    IF ~ falsy(toData(d)) THEN [emptyObject EXCEPT !["data"] = toData(d)]
    ELSE NullData

\* this.data = Object.assign({}, data)
fromData(d) == d

\* inflate on a component whose data is d: fromData is given the wrapper
inflate(d, wrapper) ==
    IF ~ falsy(wrapper["data"]) THEN fromData(wrapper) ELSE d

get(d, key) == d[key]

metaCreated ==
    /\ data = emptyObject
    /\ deflated = NoJson
    /\ freshData = emptyObject
    /\ metaOp = "create"

set(key, value) ==
    /\ data' = [data EXCEPT ![key] = value]
    /\ metaOp' = "set"
    /\ UNCHANGED << deflated, freshData >>
    /\ UNCHANGED << lodVars, scorerVars, docVars, appVars, tapeVars, tagVars >>

remove(key) ==
    /\ data' = [data EXCEPT ![key] = Absent]
    /\ metaOp' = "remove"
    /\ UNCHANGED << deflated, freshData >>
    /\ UNCHANGED << lodVars, scorerVars, docVars, appVars, tapeVars, tagVars >>

clear ==
    /\ data' = emptyObject
    /\ metaOp' = "clear"
    /\ UNCHANGED << deflated, freshData >>
    /\ UNCHANGED << lodVars, scorerVars, docVars, appVars, tapeVars, tagVars >>

\* deflate() on the component; when it returns a wrapper, inflate of the
\* wrapper on a fresh component
copyMeta ==
    /\ deflated' = deflate(data)
    /\ freshData' = (IF deflate(data) = NullData THEN emptyObject
                     ELSE inflate(emptyObject, deflate(data)))
    /\ metaOp' = "copy"
    /\ UNCHANGED data
    /\ UNCHANGED << lodVars, scorerVars, docVars, appVars, tapeVars, tagVars >>

----------------------------------------------------------------------------
(* CVTape.  A point picked on a model is a number, 0 is the origin.        *)

SetStart == 0

SetEnd == 1

Sphere == 0

Ring == 1

Pin == 4

MarkerStyles == { Sphere, Ring, Pin }

Points == 0 .. 2

\* a new MeasurementMarker: an Object3D is visible and at the origin
createMarker(style) == [style |-> style, visible |-> TRUE, position |-> 0]

tapeCreated ==
    /\ state = SetStart
    /\ startMarker = [createMarker(Sphere) EXCEPT !.visible = FALSE]
    /\ endMarker = [createMarker(Sphere) EXCEPT !.visible = FALSE]
    /\ line = FALSE
    /\ startPosition = 0
    /\ endPosition = 0
    /\ tapeEnabled = FALSE
    /\ visible = FALSE
    /\ markerStyle = Sphere
    /\ tapeOp = "create"

\* the branch of update for ins.visible.changed: v is the new value
visibleChanged(v) ==
    IF v /\ startPosition # endPosition THEN
        /\ startMarker' = [startMarker EXCEPT !.visible = TRUE]
        /\ endMarker' = [endMarker EXCEPT !.visible = TRUE]
        /\ line' = TRUE
    ELSE UNCHANGED << startMarker, endMarker, line >>

\* ins.enabled is set and update runs: ins.visible follows ins.enabled
enableTape(v) ==
    /\ tapeEnabled # v
    /\ tapeEnabled' = v
    /\ visible' = v
    /\ visibleChanged(v)
    /\ tapeOp' = "enabled"
    /\ UNCHANGED << state, startPosition, endPosition, markerStyle >>
    /\ UNCHANGED << lodVars, scorerVars, docVars, appVars, metaVars, tagVars >>

\* ins.visible is set and update runs
showTape(v) ==
    /\ visible # v
    /\ visible' = v
    /\ visibleChanged(v)
    /\ tapeOp' = "visible"
    /\ UNCHANGED << state, startPosition, endPosition, tapeEnabled,
                    markerStyle >>
    /\ UNCHANGED << lodVars, scorerVars, docVars, appVars, metaVars, tagVars >>

\* the markers replaced by new ones that are left as createMarker made them
recreateMarkersUnrestored(style) ==
    /\ startMarker' = createMarker(style)
    /\ endMarker' = createMarker(style)

\* the markers replaced by new ones of the style, their state restored
recreateMarkers(style) ==
    /\ startMarker' = [createMarker(style) EXCEPT
                           !.visible = startMarker.visible,
                           !.position = startMarker.position]
    /\ endMarker' = [createMarker(style) EXCEPT
                         !.visible = endMarker.visible,
                         !.position = endMarker.position]

\* ins.markerStyle is set and update runs
setMarkerStyle(style) ==
    /\ markerStyle # style
    /\ markerStyle' = style
    /\ recreateMarkers(style)
    /\ tapeOp' = "markerStyle"
    /\ UNCHANGED << state, line, startPosition, endPosition, tapeEnabled,
                    visible >>
    /\ UNCHANGED << lodVars, scorerVars, docVars, appVars, metaVars, tagVars >>

\* the "pointer-up" listener, registered while the tape is enabled, and the
\* update that takes the new position over to the marker
onPointerUp(isDragging, component, position) ==
    /\ tapeEnabled
    /\ IF isDragging \/ component # "CVModel2" THEN
           /\ tapeOp' = "rejected"
           /\ UNCHANGED << state, startMarker, endMarker, line,
                           startPosition, endPosition >>
       ELSE IF state = SetStart THEN
           /\ startPosition' = position
           /\ startMarker' = [startMarker EXCEPT !.visible = TRUE,
                                                 !.position = position]
           /\ endMarker' = [endMarker EXCEPT !.visible = FALSE]
           /\ line' = FALSE
           /\ state' = SetEnd
           /\ tapeOp' = "accepted"
           /\ UNCHANGED endPosition
       ELSE
           /\ endPosition' = position
           /\ startMarker' = [startMarker EXCEPT !.visible = TRUE]
           /\ endMarker' = [endMarker EXCEPT !.visible = TRUE,
                                             !.position = position]
           /\ line' = TRUE
           /\ state' = SetStart
           /\ tapeOp' = "accepted"
           /\ UNCHANGED startPosition
    /\ UNCHANGED << tapeEnabled, visible, markerStyle >>
    /\ UNCHANGED << lodVars, scorerVars, docVars, appVars, metaVars, tagVars >>

----------------------------------------------------------------------------
(* PropertyTags.  A string is a sequence of characters.                    *)

Chars == { "a", "b", ",", " " }

\* the strings of at most n characters
RECURSIVE Strings(_)
Strings(n) ==
    IF n = 0 THEN { << >> }
    ELSE Strings(n - 1)
            \cup { Append(str, c) : str \in Strings(n - 1), c \in Chars }

\* str.split(",")
RECURSIVE split(_)
split(str) ==
    IF \A i \in 1 .. Len(str) : str[i] # "," THEN << str >>
    ELSE LET i == CHOOSE i \in 1 .. Len(str) :
                      /\ str[i] = ","
                      /\ \A k \in 1 .. i - 1 : str[k] # ","
         IN  << SubSeq(str, 1, i - 1) >> \o split(SubSeq(str, i + 1, Len(str)))

\* str.trim()
RECURSIVE trim(_)
trim(str) ==
    IF str = << >> THEN str
    ELSE IF Head(str) = " " THEN trim(Tail(str))
    ELSE IF str[Len(str)] = " " THEN trim(SubSeq(str, 1, Len(str) - 1))
    ELSE str

\* tags.join(", ")
RECURSIVE join(_)
join(tags) ==
    IF tags = << >> THEN << >>
    ELSE IF Len(tags) = 1 THEN tags[1]
    ELSE tags[1] \o << ",", " " >> \o join(Tail(tags))

includes(tags, t) == \E i \in 1 .. Len(tags) : tags[i] = t

\* value.split(",").map(t => t.trim()).filter(Boolean)
selectedTagsOf(str) ==
    SelectSeq([i \in 1 .. Len(split(str)) |-> trim(split(str)[i])],
              LAMBDA t : t # << >>)

selectedTags == selectedTagsOf(propertyValue)

tagsCreated ==
    /\ propertyValue = << >>
    /\ inputValue = << >>
    /\ wasSelected = FALSE
    /\ tagOp = "create"

onAddTag(t) ==
    /\ wasSelected' = includes(selectedTags, t)
    /\ tagOp' = "add"
    /\ inputValue' = << >>
    /\ IF trim(t) = << >> \/ includes(selectedTags, trim(t)) THEN
           UNCHANGED propertyValue
       ELSE propertyValue' = join(Append(selectedTags, trim(t)))
    /\ UNCHANGED << lodVars, scorerVars, docVars, appVars, metaVars,
                    tapeVars >>

onRemoveTag(t) ==
    /\ wasSelected' = FALSE
    /\ tagOp' = "remove"
    /\ propertyValue' = join(SelectSeq(selectedTags, LAMBDA s : s # t))
    /\ UNCHANGED inputValue
    /\ UNCHANGED << lodVars, scorerVars, docVars, appVars, metaVars,
                    tapeVars >>

\* the user types into the text field
onInput(str) ==
    /\ inputValue # str
    /\ inputValue' = str
    /\ tagOp' = "input"
    /\ UNCHANGED << propertyValue, wasSelected >>
    /\ UNCHANGED << lodVars, scorerVars, docVars, appVars, metaVars,
                    tapeVars >>

\* the user interface before any specification acts on it
uiIdle ==
    /\ docText = 1
    /\ listening = FALSE
    /\ last_str = 0
    /\ last_hash = NullBuffer
    /\ hasSubtle = TRUE
    /\ returnValue = ""
    /\ appOp = "create"
    /\ metaCreated
    /\ tapeCreated
    /\ tagsCreated

Init ==
    \E n \in 1 .. MaxModels :
        /\ quality \in [1 .. n -> Quality]
        /\ ndc = [m \in 1 .. n |-> BoxBehind]
        /\ \E d \in DerivativeSets : derivatives = [m \in 1 .. n |-> d]
        /\ enabled = TRUE
        /\ hasCamera = FALSE
        /\ observedNothing(n)
        /\ scorerIdle
        /\ documentCreated
        /\ uiIdle

Tick == \E updated \in BOOLEAN : tick(updated)

Tock == tock

TockHigh == tockHigh

SetBox == \E m \in 1 .. N, b \in Boxes : setBox(m, b)

SetEnabled == \E v \in BOOLEAN : setEnabled(v)

SetCamera == \E v \in BOOLEAN : setCamera(v)

Next == Tick \/ Tock \/ TockHigh \/ SetBox \/ SetEnabled \/ SetCamera

Spec == Init /\ [][Next]_vars

----------------------------------------------------------------------------
(* Specification SpecCrowd: scenes of up to CrowdModels models that have   *)
(* every derivative and start at one quality; the first k models project   *)
(* to one box and the others to another.  The scene is ticked repeatedly.  *)

InitCrowd ==
    \E n \in 1 .. CrowdModels, k \in 1 .. CrowdModels :
      \E b1 \in CrowdBoxes, b2 \in CrowdBoxes, q \in Quality :
        /\ k <= n
        /\ quality = [m \in 1 .. n |-> q]
        /\ ndc = [m \in 1 .. n |-> IF m <= k THEN b1 ELSE b2]
        /\ derivatives = [m \in 1 .. n |-> Quality]
        /\ enabled = TRUE
        /\ hasCamera = TRUE
        /\ observedNothing(n)
        /\ scorerIdle
        /\ documentCreated
        /\ uiIdle

NextCrowd == Tick

SpecCrowd == InitCrowd /\ [][NextCrowd]_vars

----------------------------------------------------------------------------
(* Specification SpecSteady: scenes of up to MaxModels models that never   *)
(* move: any boxes, any bound qualities, any set of derivatives.  The      *)
(* scene is ticked repeatedly, so every model keeps its weight.            *)

InitSteady ==
    \E n \in 1 .. MaxModels :
        /\ quality \in [1 .. n -> Quality]
        /\ ndc \in [1 .. n -> Boxes]
        /\ \E d \in DerivativeSets : derivatives = [m \in 1 .. n |-> d]
        /\ enabled = TRUE
        /\ hasCamera = TRUE
        /\ observedNothing(n)
        /\ scorerIdle
        /\ documentCreated
        /\ uiIdle

NextSteady == Tick

SpecSteady == InitSteady /\ [][NextSteady]_vars

----------------------------------------------------------------------------
(* Specification SpecRanked: scenes of up to RankedModels models that      *)
(* start at one quality and have one set of derivatives; the first k       *)
(* models project to one box and the others to another.  The controller    *)
(* is enabled and disabled, and tock runs repeatedly.                      *)

\* the sets of derivatives for which select has one outcome
RankedDerivativeSets == { d \in DerivativeSets : Cardinality(d) # 2 }

InitRanked ==
    \E n \in 1 .. RankedModels, k \in 1 .. RankedModels :
      \E b1 \in CrowdBoxes, b2 \in CrowdBoxes, q \in Quality :
        /\ k <= n
        /\ quality = [m \in 1 .. n |-> q]
        /\ ndc = [m \in 1 .. n |-> IF m <= k THEN b1 ELSE b2]
        /\ \E d \in RankedDerivativeSets :
              derivatives = [m \in 1 .. n |-> d]
        /\ enabled = TRUE
        /\ hasCamera = TRUE
        /\ observedNothing(n)
        /\ scorerIdle
        /\ documentCreated
        /\ uiIdle

NextRanked == Tock \/ SetEnabled

SpecRanked == InitRanked /\ [][NextRanked]_vars

----------------------------------------------------------------------------
(* Specification SpecBulk: scenes of BulkModels models that have every     *)
(* derivative and start at one quality; the first k models project to one  *)
(* box and the others to another.  Scenes of CrammedModels models project  *)
(* to one box.  The scene is ticked repeatedly.                            *)

InitBulk ==
    \E n \in { BulkModels, CrammedModels }, k \in { 1, 6, BulkModels } :
      \E b1 \in CrowdBoxes, b2 \in CrowdBoxes, q \in Quality :
        /\ n = CrammedModels => (k = 1 /\ b1 = b2)
        /\ quality = [m \in 1 .. n |-> q]
        /\ ndc = [m \in 1 .. n |-> IF m <= k THEN b1 ELSE b2]
        /\ derivatives = [m \in 1 .. n |-> Quality]
        /\ enabled = TRUE
        /\ hasCamera = TRUE
        /\ observedNothing(n)
        /\ scorerIdle
        /\ documentCreated
        /\ uiIdle

NextBulk == Tick

SpecBulk == InitBulk /\ [][NextBulk]_vars

----------------------------------------------------------------------------
(* Specification SpecUnloaded: scenes of up to UnloadedModels models that  *)
(* have every derivative; at least one of them is not loaded yet and has   *)
(* an empty local bounding box.  The scene is ticked and tocked.           *)

UnloadedBoxes == { BoxNaN, BoxBehind, Box095, Box500 }

InitUnloaded ==
    \E n \in 1 .. UnloadedModels :
        /\ quality \in [1 .. n -> Quality]
        /\ ndc \in [1 .. n -> UnloadedBoxes]
        /\ \E m \in 1 .. n : ndc[m] = BoxNaN
        /\ derivatives = [m \in 1 .. n |-> Quality]
        /\ enabled = TRUE
        /\ hasCamera = TRUE
        /\ observedNothing(n)
        /\ scorerIdle
        /\ documentCreated
        /\ uiIdle

NextUnloaded == Tick \/ Tock

SpecUnloaded == InitUnloaded /\ [][NextUnloaded]_vars

----------------------------------------------------------------------------
(* Specification SpecScorer: the importance scorer applied on its own to   *)
(* two NDC boxes of the same width, height and depth range.                *)

\* the ranges a box covers on a screen axis: across the centre, on one
\* side of it, beyond the edge of the screen, wider than the screen, flat
ScreenExtents ==
    { << -10, 10 >>, << 5, 25 >>, << 11, 31 >>, << -31, -11 >>,
      << -2, 3 >>, << 25, 30 >>, << -30, -25 >>, << 8, 13 >>,
      << -22, 23 >>, << 3, 3 >>, << 0, 10 >>, << -10, 0 >> }

\* the ranges a box covers in depth: inside the near/far range, ending on
\* a plane, across a plane, beyond a plane, across both planes, flat
DepthExtents ==
    { << -5, 5 >>, << -10, 10 >>, << -10, 5 >>, << -5, 10 >>, << 0, 0 >>,
      << 5, 15 >>, << 5, 25 >>, << 10, 20 >>, << 15, 25 >>, << 20, 30 >>,
      << -15, -5 >>, << -30, -5 >>, << -30, -20 >>, << -30, 30 >> }

ScoreBoxes ==
    { Box(x[1], x[2], y[1], y[2], z[1], z[2]) :
        x \in ScreenExtents, y \in ScreenExtents, z \in DepthExtents }

\* what the passes compute from the NDC box of a model
scoreOf(b) ==
    [relSize    |-> relSizeOf(b),
     center     |-> maxCenterWeight(b),
     depth      |-> depthWeight(b.zmin, b.zmax),
     weight     |-> weightOf(b),
     tockWeight |-> tockWeightOf(b)]

score ==
    /\ scoreBoxes # << >>
    /\ scores = << >>
    /\ scores' = [i \in DOMAIN scoreBoxes |-> scoreOf(scoreBoxes[i])]
    /\ UNCHANGED << lodVars, scoreBoxes, docVars, uiVars >>

InitScorer ==
    \E a \in ScoreBoxes, x \in ScreenExtents, y \in ScreenExtents :
        /\ x[2] - x[1] = a.xmax - a.xmin
        /\ y[2] - y[1] = a.ymax - a.ymin
        /\ scoreBoxes = << a, Box(x[1], x[2], y[1], y[2], a.zmin, a.zmax) >>
        /\ scores = << >>
        /\ noScene
        /\ documentCreated
        /\ uiIdle

Score == score

NextScorer == Score

SpecScorer == InitScorer /\ [][NextScorer]_vars

----------------------------------------------------------------------------
(* Specification SpecDocument: a CVDocument that is opened with valid and  *)
(* invalid document data, replacing or merging, and edited.                *)

\* document data: `valid` is what the schema validator answers for it,
\* `copyright` is asset.copyright ("null" when absent), `id` is asset.id
\* and `nodes` the nodes of its scene
Documents ==
    [valid : BOOLEAN, copyright : {"null", "CC0"}, id : 1 .. 2,
     nodes : { {1}, {2, 3} }]

\* the asset paths documents are opened with, "" when none is given
AssetPaths == { "", "a.svx.json", "b/c.svx.json" }

\* mergeParent: false, true, a node of the document's graph, a node of
\* another graph
MergeParents == { "false", "true", "node", "foreign" }

\* CVAssetManager.getAssetName: the name of the asset at the path
getAssetName(path) ==
    CASE path = "a.svx.json"   -> "a.svx.json"
      [] path = "b/c.svx.json" -> "c.svx.json"
      [] OTHER                 -> path

\* openDocument once the data is validated
loadDocument(documentData, path, mergeParent) ==
    \E cleared \in { IF mergeParent = "false" THEN {} ELSE nodeTree },
       newTitle \in { IF mergeParent = "false" THEN "null" ELSE title } :
        /\ copyright' = (IF documentData.copyright = "null" THEN ""
                         ELSE documentData.copyright)
        \* onMetaComponent({ object: this.root.meta, add: true })
        /\ meta' = (IF meta = "null" THEN "root" ELSE meta)
        /\ loadListener' = (loadListener \/ newTitle \in {"", "null"})
        /\ title' = newTitle
        /\ IF mergeParent = "foreign" THEN
               \* throw new Error("invalid parent node")
               /\ thrown' = "invalid parent node"
               /\ nodeTree' = cleared
               /\ UNCHANGED << assetPath, name, ref_id >>
           ELSE
               /\ thrown' = "none"
               /\ nodeTree' = cleared \cup documentData.nodes
               /\ assetPath' = (IF path # "" THEN path ELSE assetPath)
               /\ name' = (IF path # "" THEN getAssetName(path) ELSE name)
               /\ ref_id' = documentData.id
        /\ UNCHANGED << lodVars, scorerVars, uiVars >>

\* openDocument with the node tree cleared before the data is validated
openDocumentClearsFirst(documentData, path, mergeParent) ==
    IF ~ documentData.valid THEN
        /\ thrown' = "document schema validation failed"
        /\ nodeTree' = (IF mergeParent = "false" THEN {} ELSE nodeTree)
        /\ title' = (IF mergeParent = "false" THEN "null" ELSE title)
        /\ UNCHANGED << copyright, assetPath, name, ref_id, meta, loadListener >>
        /\ UNCHANGED << lodVars, scorerVars, uiVars >>
    ELSE loadDocument(documentData, path, mergeParent)

openDocument(documentData, path, mergeParent) ==
    IF ~ documentData.valid THEN
        \* throw new Error("document schema validation failed")
        /\ thrown' = "document schema validation failed"
        /\ UNCHANGED << nodeTree, title, copyright, assetPath, name, ref_id,
                        meta, loadListener >>
        /\ UNCHANGED << lodVars, scorerVars, uiVars >>
    ELSE loadDocument(documentData, path, mergeParent)

\* the "load" event of the meta component: the listener registered by
\* onMetaComponent sets the title found in the meta data
metaLoaded(t) ==
    /\ loadListener
    /\ loadListener' = FALSE
    /\ title' = t
    /\ meta' = "root"
    /\ thrown' = "none"
    /\ UNCHANGED << nodeTree, copyright, assetPath, name, ref_id >>
    /\ UNCHANGED << lodVars, scorerVars, uiVars >>

\* the user edits the title: update() takes ins.title over
setTitle(t) ==
    /\ title # t
    /\ title' = t
    /\ thrown' = "none"
    /\ UNCHANGED << nodeTree, copyright, assetPath, name, ref_id, meta,
                    loadListener >>
    /\ UNCHANGED << lodVars, scorerVars, uiVars >>

Titles == { "", "Vase" }

OpenDocument ==
    \E documentData \in Documents, path \in AssetPaths,
       mergeParent \in MergeParents :
        openDocument(documentData, path, mergeParent)

MetaLoaded == \E t \in Titles : metaLoaded(t)

SetTitle == \E t \in Titles : setTitle(t)

InitDocument ==
    /\ documentCreated
    /\ uiIdle
    /\ noScene
    /\ scorerIdle

NextDocument == OpenDocument \/ MetaLoaded \/ SetTitle

SpecDocument == InitDocument /\ [][NextDocument]_vars

----------------------------------------------------------------------------
(* Specification SpecStory: a story application whose document is opened,  *)
(* edited and left.                                                        *)

EditDocument == \E json \in JsonTexts : editDocument(json)

InitStory ==
    /\ applicationCreated
    /\ metaCreated
    /\ tapeCreated
    /\ tagsCreated
    /\ documentCreated
    /\ noScene
    /\ scorerIdle

NextStory == onDocument \/ assetPathChanged \/ EditDocument \/ beforeUnload

SpecStory == InitStory /\ [][NextStory]_vars

----------------------------------------------------------------------------
(* Specification SpecMeta: a CVMeta whose entries are set and removed and  *)
(* whose data is copied to a fresh CVMeta through deflate and inflate.     *)

Set == \E key \in Keys, value \in Numbers : set(key, value)

Remove == \E key \in Keys : remove(key)

InitMeta ==
    /\ uiIdle
    /\ documentCreated
    /\ noScene
    /\ scorerIdle

NextMeta == Set \/ Remove \/ clear \/ copyMeta

SpecMeta == InitMeta /\ [][NextMeta]_vars

----------------------------------------------------------------------------
(* Specification SpecTape: a tape that is enabled and shown, whose marker  *)
(* style is changed and that receives pointer-up events while enabled.     *)

PointerComponents == { "none", "CVModel2", "CVAnnotationView" }

EnableTape == \E v \in BOOLEAN : enableTape(v)

ShowTape == \E v \in BOOLEAN : showTape(v)

SetMarkerStyle == \E style \in MarkerStyles : setMarkerStyle(style)

OnPointerUp ==
    \E isDragging \in BOOLEAN, component \in PointerComponents,
       position \in Points :
        onPointerUp(isDragging, component, position)

InitTape ==
    /\ uiIdle
    /\ documentCreated
    /\ noScene
    /\ scorerIdle

NextTape == EnableTape \/ ShowTape \/ SetMarkerStyle \/ OnPointerUp

SpecTape == InitTape /\ [][NextTape]_vars

----------------------------------------------------------------------------
(* Specification SpecTags: a PropertyTags element on an empty property;    *)
(* tags are typed, added from the text field or directly, and removed.     *)

\* Enter in the text field adds inputValue; the select adds its value
OnAddTag ==
    \E t \in Strings(MaxTagLen) \cup { inputValue } :
        /\ Len(propertyValue) <= MaxValueLen
        /\ onAddTag(t)

OnRemoveTag == \E t \in Strings(MaxTagLen) : onRemoveTag(t)

OnInput == \E str \in { << >>, << "a" >> } : onInput(str)

InitTags ==
    /\ uiIdle
    /\ documentCreated
    /\ noScene
    /\ scorerIdle

NextTags == OnAddTag \/ OnRemoveTag \/ OnInput

SpecTags == InitTags /\ [][NextTags]_vars

----------------------------------------------------------------------------
(* Properties of the budget allocator.                                     *)

\* the last operation ran the LOD pass of tick to its end
lodRan == op = "tick" /\ result = "true"

\* the entry of model m in the `models` array of the last pass
entryOf(m) == models[indexOf(models, m)]

RECURSIVE sumOfCosts(_)
sumOfCosts(ms) ==
    IF ms = << >> THEN 0 ELSE sizeMap(Head(ms).quality) + sumOfCosts(Tail(ms))

budgetPressure == \E i \in 1 .. Len(models) : models[i].quality < models[i].proposed

\* C1: after the allocator has processed all N models, the pixel costs of
\* their final tiers add up to at most the budget, whenever N thumbnails fit.
C1_BudgetRespected ==
    (lodRan /\ N * sizeMap(Thumb) <= Budget) =>
        /\ sumOfCosts(models) <= Budget
        /\ texSize = sumOfCosts(models)

C1_Witness ==
    /\ lodRan
    /\ N = CrowdModels
    /\ budgetPressure
    /\ \A i \in 1 .. Len(models) : models[i].proposed = High

\* C2: during budget enforcement a model's tier only decreases: the tier an
\* entry leaves the allocator with is at most the tier the classifier
\* proposed for the model in this pass, and at least Thumb.
C2_OnlyDowngrades ==
    lodRan =>
        \A i \in 1 .. Len(models) :
            /\ models[i].proposed =
                   getQuality(before[models[i].model], weightOf(ndc[models[i].model]))
            /\ Thumb <= models[i].quality
            /\ models[i].quality <= models[i].proposed

C2_Witness ==
    /\ lodRan
    /\ \E i \in 1 .. Len(models) : models[i].quality + 2 <= models[i].proposed
    /\ \E i \in 1 .. Len(models) : models[i].quality = models[i].proposed

\* C3: of two models of one pass with the same proposed tier, the one with
\* the strictly greater weight leaves the allocator with a final tier at
\* least that of the other.
C3_ImportantKeepDetail ==
    lodRan =>
        \A i, j \in 1 .. Len(models) :
            (/\ models[i].proposed = models[j].proposed
             /\ FracLess(models[i].weight, models[j].weight))
            => models[i].quality <= models[j].quality

----------------------------------------------------------------------------
(* Properties of the classifier.                                           *)

weightIs(m, thousandths) == weightOf(ndc[m]) = Frac(thousandths, 1000)

atLeast(w, thousandths) == ~ FracLess(w, Frac(thousandths, 1000))

\* every model has a derivative of every quality: select returns what is
\* asked for
exactDerivatives == \A m \in 1 .. N : derivatives[m] = Quality

\* the unadjusted threshold that is the ceiling of tier c, c below High
ceiling(c) == steps[c + 1][1]

----------------------------------------------------------------------------
(* Properties of the whole pass.                                           *)

\* C5: when the LOD pass runs again on the scene it has just processed, with
\* derivatives of exactly the requested tiers, it writes no model's quality.
C5_SecondPassIdle ==
    (lodRan /\ repeated /\ exactDerivatives) => (written = {} /\ quality = before)

C5_Witness ==
    /\ lodRan
    /\ repeated
    /\ exactDerivatives
    /\ budgetPressure
    /\ written = {}
    /\ \E i \in 1 .. Len(models) :
          models[i].quality = Medium /\ models[i].weight = Frac(310, 1000)

\* C6: a model whose weight is 0 in a pass does not leave the apply step with
\* a quality above the one it entered the pass with.
C6_NoUpgradeInvisible ==
    lodRan =>
        \A m \in 1 .. N :
            FracZero(weightOf(ndc[m])) => quality[m] <= before[m]

\* C7: a model whose weight is 0 and whose tier is above Thumb ends the pass
\* at Thumb when it has a Thumb derivative, and every model of greater
\* weight ends the pass with at least that tier.
C7_InvisibleDowngraded ==
    lodRan =>
        \A m \in 1 .. N :
            (/\ FracZero(weightOf(ndc[m]))
             /\ before[m] > Thumb
             /\ Thumb \in derivatives[m])
            => /\ quality[m] = Thumb
               /\ m \in written
               /\ \A o \in 1 .. N :
                     FracLess(weightOf(ndc[m]), weightOf(ndc[o]))
                     => quality[o] >= quality[m]

C7_Witness ==
    /\ lodRan
    /\ \E m, o \in 1 .. N :
          /\ FracZero(weightOf(ndc[m]))
          /\ before[m] = High
          /\ quality[m] = Thumb
          /\ ~ FracZero(weightOf(ndc[o]))
          /\ quality[o] > Thumb

ranPass == op \in {"tick", "tock", "tockHigh"}

\* C8: a pass writes a model's quality only when select returned a
\* derivative whose quality differs from the model's current one, and then
\* writes that quality; a model for which select returned null or the
\* current quality keeps its quality.
C8_WritesOnlyOnChange ==
    ranPass =>
        \A m \in 1 .. N :
            /\ m \in written <=>
                   (selected[m] \in Quality /\ selected[m] # before[m])
            /\ m \in written => quality[m] = selected[m]
            /\ m \notin written => quality[m] = before[m]

C8_Witness ==
    /\ op = "tick"
    /\ \E m \in 1 .. N : selected[m] = before[m] /\ m \notin written
    /\ \E m \in 1 .. N : m \in written

\* C9: without an active camera component, or with the enabled input false,
\* a pass reports no change and writes no model's quality.
C9_NoOpWhenDisabled ==
    (ranPass /\ (~ enabled \/ ~ hasCamera)) =>
        /\ result \in {"false", "undefined"}
        /\ written = {}
        /\ quality = before
        /\ \A m \in 1 .. N : selected[m] = NoCall

C9_Witness ==
    /\ op = "tick"
    /\ ~ hasCamera
    /\ enabled
    /\ exactDerivatives
    /\ \E m \in 1 .. N :
          getQuality(quality[m], weightOf(ndc[m])) # quality[m]

----------------------------------------------------------------------------
(* Properties of the importance scorer.                                    *)

\* the scorer has been applied to the boxes of scoreBoxes
scored == scores # << >>

One == Frac(1, 1)

\* a fraction of [0, 1]
inUnitRange(w) == w.n >= 0 /\ w.d > 0 /\ ~ FracLess(One, w)

\* the box has positive width and height
hasArea(b) == b.xmin < b.xmax /\ b.ymin < b.ymax

\* the range lo .. hi intersects the visible range of an axis
overlapsRange(lo, hi) == lo <= NdcUnit /\ -NdcUnit <= hi

overlapsView(b) ==
    /\ overlapsRange(b.xmin, b.xmax)
    /\ overlapsRange(b.ymin, b.ymax)
    /\ overlapsRange(b.zmin, b.zmax)

\* the depth range of the box lies inside the near/far range, bounds
\* included
depthInside(b) == -NdcUnit <= b.zmin /\ b.zmax <= NdcUnit

\* the depth range of the box lies beyond the near or the far plane
depthOutside(b) == b.zmax < -NdcUnit \/ NdcUnit < b.zmin

\* C11: the weight the LOD pass of tick computes for a model lies in
\* [0, 1] for every NDC box, also for a box wider or higher than the
\* screen.
C11_WeightInUnitRange ==
    scored => \A i \in DOMAIN scores : inUnitRange(scores[i].weight)

\* C12: a box of positive width and height that overlaps the view volume
\* on X, Y and Z has a weight greater than 0.
C12_VisibleHasWeight ==
    scored =>
        \A i \in DOMAIN scores :
            hasArea(scoreBoxes[i]) /\ overlapsView(scoreBoxes[i])
                => ~ FracZero(scores[i].weight)

\* C13, as stated: a box whose corners all lie beyond x = 2 has weight 0,
\* also when its depth range lies inside [-1, 1].
C13_OffscreenWeightZero ==
    scored =>
        \A i \in DOMAIN scores :
            2 * NdcUnit < scoreBoxes[i].xmin /\ depthInside(scoreBoxes[i])
                => FracZero(scores[i].weight)

\* the distance of the nearest edge of the box to the screen centre, X
\* offset plus Y offset
edgeOffset(b) ==
    (IF b.xmin > 0 THEN b.xmin ELSE IF b.xmax < 0 THEN -b.xmax ELSE 0)
    + (IF b.ymin > 0 THEN b.ymin ELSE IF b.ymax < 0 THEN -b.ymax ELSE 0)

\* C13, amended: a box of positive width and height whose corners all lie
\* beyond x = 2 and whose depth range lies strictly inside (-1, 1) has the
\* weight relSize / (1 + dxy), dxy being the offset of its nearest edge
\* from the screen centre: greater than 0 and less than relSize / 3.
C13_OffscreenWeightPositive ==
    scored =>
        \A i \in DOMAIN scores :
            LET b == scoreBoxes[i]
                w == scores[i].weight
            IN  /\ hasArea(b)
                /\ 2 * NdcUnit < b.xmin
                /\ -NdcUnit < b.zmin /\ b.zmax < NdcUnit
                => /\ w.n > 0
                   /\ w.n * scores[i].relSize.d * (NdcUnit + edgeOffset(b))
                        = scores[i].relSize.n * NdcUnit * w.d
                   /\ FracLess(FracMul(w, Frac(3, 1)), scores[i].relSize)

C13_Witness ==
    /\ scored
    /\ hasArea(scoreBoxes[1])
    /\ 2 * NdcUnit < scoreBoxes[1].xmin
    /\ -NdcUnit < scoreBoxes[1].zmin /\ scoreBoxes[1].zmax < NdcUnit
    /\ scoreBoxes[1].ymin <= 0 /\ 0 <= scoreBoxes[1].ymax
    /\ ~ FracZero(scores[1].weight)

\* C14: depthWeight is 1 for a depth range inside [-1, 1], bounds
\* included, and 0 for a depth range entirely beyond a plane.
C14_DepthInsideOutside ==
    scored =>
        \A i \in DOMAIN scores :
            /\ depthInside(scoreBoxes[i]) => scores[i].depth = One
            /\ depthOutside(scoreBoxes[i]) => FracZero(scores[i].depth)

\* C15: depthWeight lies strictly between 0 and 1 for a depth range that
\* is neither inside [-1, 1] nor entirely beyond a plane, and for the
\* range (1.5, 2.5).
C15_StraddlePartial ==
    scored =>
        \A i \in DOMAIN scores :
            LET b == scoreBoxes[i]
            IN  \/ (~ depthInside(b) /\ ~ depthOutside(b))
                \/ (2 * b.zmin = 3 * NdcUnit /\ 2 * b.zmax = 5 * NdcUnit)
                => /\ ~ FracZero(scores[i].depth)
                   /\ FracLess(scores[i].depth, One)

\* the box contains the screen centre on both axes
containsCenter(b) ==
    b.xmin <= 0 /\ 0 <= b.xmax /\ b.ymin <= 0 /\ 0 <= b.ymax

center2x(b) == b.xmin + b.xmax

center2y(b) == b.ymin + b.ymax

\* four times the squared distance of the centre of the box to (0, 0)
centerDistance(b) == center2x(b) * center2x(b) + center2y(b) * center2y(b)

sameSize(a, b) ==
    /\ a.xmax - a.xmin = b.xmax - b.xmin
    /\ a.ymax - a.ymin = b.ymax - b.ymin

Abs(x) == IF x < 0 THEN -x ELSE x

\* C17, as stated: of two boxes of the same width and height, the one
\* whose centre is closer to (0, 0) has the larger or equal centre weight.
C17_CloserCenterHeavier ==
    scored /\ sameSize(scoreBoxes[1], scoreBoxes[2])
           /\ centerDistance(scoreBoxes[1]) <= centerDistance(scoreBoxes[2])
        => ~ FracLess(scores[1].center, scores[2].center)

\* the centre of a is at least as close to the screen centre as the centre
\* of b on each screen axis
closerOnBothAxes(a, b) ==
    /\ Abs(center2x(a)) <= Abs(center2x(b))
    /\ Abs(center2y(a)) <= Abs(center2y(b))

\* C17, amended: of two boxes of the same width and height, the one whose
\* centre is at least as close to the screen centre on the X axis and on
\* the Y axis has the larger or equal centre weight.
C17_CloserOnBothAxes ==
    scored /\ sameSize(scoreBoxes[1], scoreBoxes[2])
           /\ closerOnBothAxes(scoreBoxes[1], scoreBoxes[2])
        => ~ FracLess(scores[1].center, scores[2].center)

C17_Witness ==
    /\ scored
    /\ sameSize(scoreBoxes[1], scoreBoxes[2])
    /\ closerOnBothAxes(scoreBoxes[1], scoreBoxes[2])
    /\ centerDistance(scoreBoxes[1]) < centerDistance(scoreBoxes[2])
    /\ FracLess(scores[2].center, scores[1].center)

----------------------------------------------------------------------------
(* The allocator on a scene too large for the budget.                      *)

\* the thumbnails of n models and the reservation exceed the budget
infeasible(n) == n * sizeMap(Thumb) + initialReserved(n) > Budget

\* C18, as stated: when the budget is infeasible the pass ends with every
\* model at Thumb, whatever was proposed.
C18_AllThumbWhenInfeasible ==
    lodRan /\ infeasible(N)
        => \A i \in 1 .. Len(models) : models[i].quality = Thumb

\* the cost of the entries lo .. hi of the last pass
RECURSIVE costOfRange(_, _)
costOfRange(lo, hi) ==
    IF lo > hi THEN 0
    ELSE IF lo = hi THEN sizeMap(models[lo].quality)
    ELSE costOfRange(lo, (lo + hi) \div 2) + costOfRange((lo + hi) \div 2 + 1, hi)

\* what is left of the budget when entry i is processed: the reservation
\* has been released for i entries, the entries before i are paid for
roomFor(i) ==
    Budget - (initialReserved(N) - i * 512 * 512) - costOfRange(1, i - 1)

\* the highest quality up to the proposed one that fits the room, Thumb
\* when none fits
highestFitting(i) ==
    LET fitting == { q \in Thumb .. models[i].proposed : sizeMap(q) <= roomFor(i) }
    IN  IF fitting = {} THEN Thumb
        ELSE CHOOSE q \in fitting : \A p \in fitting : p <= q

\* C18, amended: when the budget is infeasible the pass still ends, and
\* every entry, in ascending order of weight, is left at the highest
\* quality up to its proposed one that fits budget - reserved - texSize at
\* its turn, at Thumb only when none fits.
C18_HighestFittingWhenInfeasible ==
    lodRan /\ infeasible(N)
        => \A i \in 1 .. Len(models) : models[i].quality = highestFitting(i)

C18_Witness ==
    /\ lodRan
    /\ infeasible(N)
    /\ \E i \in 1 .. Len(models) : models[i].quality = High
    /\ \E i \in 1 .. Len(models) :
          models[i].proposed = High /\ models[i].quality = Thumb

----------------------------------------------------------------------------
(* Models that are not loaded yet.                                         *)

\* C19: a model whose local bounding box is empty has weight 0 in the
\* pass, is proposed Thumb, is charged the cost of Thumb and is sorted
\* before every model of positive weight.
C19_UnloadedIsLeastImportant ==
    lodRan =>
        \A m \in 1 .. N :
            ndc[m] = BoxNaN =>
                /\ entryOf(m).weight = Frac(0, 1)
                /\ entryOf(m).proposed = Thumb
                /\ entryOf(m).quality = Thumb
                /\ \A j \in 1 .. Len(models) :
                      FracLess(Frac(0, 1), models[j].weight)
                          => indexOf(models, m) < j

----------------------------------------------------------------------------
(* CVDocument.openDocument validates first.                                *)

\* C20: when openDocument throws "document schema validation failed" it
\* has modified nothing: node tree, title, copyright, assetPath, name and
\* ref_id are what they were before the call.
C20_ValidationFailureChangesNothing ==
    [][ thrown' = "document schema validation failed"
            => UNCHANGED << nodeTree, title, copyright, assetPath, name, ref_id >>
      ]_vars

C20_Witness ==
    /\ thrown = "document schema validation failed"
    /\ nodeTree # {}
    /\ title = "Vase"
    /\ copyright = "CC0"
    /\ ref_id = 2
    /\ assetPath = "b/c.svx.json"

----------------------------------------------------------------------------
(* The running total of the allocator.                                     *)

\* `reserved` once k entries have been processed
reservedAfter(k) == initialReserved(N) - k * 512 * 512

\* C22: once the k-th entry is processed the running total is at most
\* max(budget - reserved_k, k * cost(Thumb)); when the initial reservation
\* fits the budget, the final total is at most
\* budget - N*512*512 - 4*1024*1024.
C22_RunningTotalBounded ==
    lodRan =>
        /\ \A k \in 1 .. Len(models) :
              costOfRange(1, k)
                  <= Max2(Budget - reservedAfter(k), k * sizeMap(Thumb))
        /\ texSize = costOfRange(1, Len(models))
        /\ initialReserved(N) <= Budget
              => texSize <= Budget - N * 512 * 512 - 4 * 1024 * 1024

C22_Witness ==
    /\ lodRan
    /\ initialReserved(N) <= Budget
    /\ budgetPressure
    /\ \E i \in 1 .. Len(models) : models[i].quality = High
    /\ texSize <= Budget - N * 512 * 512 - 4 * 1024 * 1024
    /\ Budget - N * 512 * 512 - 4 * 1024 * 1024 < texSize + sizeMap(Low)

----------------------------------------------------------------------------
(* Properties of the classifier.                                           *)

FracLessEq(a, b) == FracLess(a, b) \/ a = b

\* the pass proposed quality x for model m
proposedIs(m, x) ==
    /\ lodRan
    /\ m <= N
    /\ entryOf(m).proposed = x

\* the pass proposed a quality other than x for model m
proposedOther(m, x) ==
    /\ lodRan
    /\ m <= N
    /\ entryOf(m).proposed # x

\* the weights of the scene
sceneWeights == { weightOf(ndc[m]) : m \in 1 .. N }

\* getQuality reproduces its own output
fixedPoint ==
    \A w \in sceneWeights : \A c \in Quality :
        getQuality(getQuality(c, w), w) = getQuality(c, w)

\* getQuality does not decrease when the weight increases
monotone ==
    \A w1 \in sceneWeights, w2 \in sceneWeights : \A c \in Quality :
        FracLessEq(w1, w2) => getQuality(c, w1) <= getQuality(c, w2)

\* what tick proposed is what getQuality proposes again for it
proposalsStable ==
    lodRan =>
        \A i \in 1 .. Len(models) :
            getQuality(models[i].proposed, models[i].weight)
                = models[i].proposed

----------------------------------------------------------------------------
(* Properties of the apply step.                                           *)

\* the cost of the qualities the models lo .. hi are bound to
RECURSIVE boundCost(_, _)
boundCost(lo, hi) ==
    IF lo > hi THEN 0
    ELSE sizeMap(quality[lo]) + boundCost(lo + 1, hi)

\* the apply step skipped an upgrade of entry e: `!weight` held
upgradeSkipped(e) ==
    /\ FracZero(e.weight)
    /\ before[e.model] < e.quality
    /\ quality[e.model] = before[e.model]

\* C24: when select returns exactly the requested tier, after the apply
\* step every model's bound quality is at most the tier the allocator gave
\* it, and equal to it unless an upgrade was skipped for a weight of 0; the
\* cost of the bound tiers is within the budget whenever the allocated
\* total is.
C24_BoundWithinAllocated ==
    (lodRan /\ exactDerivatives) =>
        /\ \A i \in 1 .. Len(models) :
              /\ quality[models[i].model] <= models[i].quality
              /\ \/ quality[models[i].model] = models[i].quality
                 \/ upgradeSkipped(models[i])
        /\ boundCost(1, N) <= texSize
        /\ texSize <= Budget => boundCost(1, N) <= Budget

\* a pass under budget pressure rebound a visible model below its proposal
\* and an invisible model below its former quality
C24_Witness ==
    /\ lodRan
    /\ exactDerivatives
    /\ budgetPressure
    /\ texSize <= Budget
    /\ \E i \in 1 .. Len(models) :
          /\ ~ FracZero(models[i].weight)
          /\ models[i].quality < models[i].proposed
          /\ quality[models[i].model] = models[i].quality
          /\ before[models[i].model] # models[i].quality
    /\ \E i \in 1 .. Len(models) :
          /\ FracZero(models[i].weight)
          /\ quality[models[i].model] < before[models[i].model]

----------------------------------------------------------------------------
(* Properties of the weight-ranked tock.                                   *)

\* tock went through its loop
tockRan == op = "tock" /\ models # << >>

\* the ranks at which tock requested quality q
ranksAt(q) == { i \in 1 .. Len(models) : models[i].quality = q }

\* C25: tock sorts the models by descending weight and requests High for
\* ranks 1-2, Medium for ranks 3-5, Low for ranks 6-10 and Thumb beyond, so
\* at most 2 models are requested at High, 3 at Medium and 5 at Low; select
\* is called for the models whose quality is not the requested one; and
\* tock returns true exactly when a quality was written.
C25_RankQuotas ==
    op = "tock" =>
        /\ (result = "true") <=> (written # {})
        /\ tockRan =>
              /\ Len(models) = N
              /\ \A i \in 1 .. N, j \in 1 .. N :
                    i < j => ~ FracLess(models[i].weight, models[j].weight)
              /\ \A i \in 1 .. N :
                    /\ models[i].weight = tockWeightOf(ndc[models[i].model])
                    /\ models[i].quality =
                          (IF i <= 2 THEN High
                           ELSE IF i <= 5 THEN Medium
                           ELSE IF i <= 10 THEN Low
                           ELSE Thumb)
                    /\ (selected[models[i].model] = NoCall)
                          <=> (before[models[i].model] = models[i].quality)
                    /\ derivatives[models[i].model] = Quality
                          => selected[models[i].model]
                                \in { NoCall, models[i].quality }
              /\ Cardinality(ranksAt(High)) <= 2
              /\ Cardinality(ranksAt(Medium)) <= 3
              /\ Cardinality(ranksAt(Low)) <= 5

\* a pass over more than ten models of two different weights filled every
\* quota, requested Thumb for the rest, wrote a quality and returned true
C25_Witness ==
    /\ tockRan
    /\ N > 10
    /\ Cardinality(ranksAt(High)) = 2
    /\ Cardinality(ranksAt(Medium)) = 3
    /\ Cardinality(ranksAt(Low)) = 5
    /\ Cardinality(ranksAt(Thumb)) = N - 10
    /\ FracLess(models[N].weight, models[1].weight)
    /\ written # {}
    /\ result = "true"

----------------------------------------------------------------------------
(* Properties of the unload prompt.                                        *)

\* C21: once a hash is recorded, beforeUnload sets event.returnValue when
\* the current serialization differs from the recorded one, and leaves it
\* unset when the two are identical.
C21_PromptIffChanged ==
    (appOp = "beforeUnload" /\ last_hash # NullBuffer) =>
        ((returnValue = "x") <=> (docText # last_str))

----------------------------------------------------------------------------
(* Properties of CVMeta.                                                   *)

\* C26: after inflate(deflate()) on a fresh CVMeta, for a CVMeta that holds
\* at least one entry, get(k) of the fresh component equals get(k) of the
\* original for every key k and the two toData() are equal; deflate() of an
\* empty CVMeta returns null.
C26_RoundTrip ==
    metaOp = "copy" =>
        IF hasData(data) THEN
            /\ \A k \in Keys : get(freshData, k) = get(data, k)
            /\ toData(freshData) = toData(data)
        ELSE deflated = NullData

----------------------------------------------------------------------------
(* Properties of CVTape.                                                   *)

markersConsistent ==
    /\ line <=> endMarker.visible
    /\ endMarker.visible => startMarker.visible

\* C27: the measurement line is visible exactly when the end marker is, and
\* the end marker is visible only when the start marker is; an accepted
\* pointer-up flips outs.state between SetStart and SetEnd; a rejected
\* pointer-up changes neither the state, the positions nor the
\* visibilities.
C27_MarkerVisibility ==
    /\ [] markersConsistent
    /\ [][ /\ tapeOp' = "accepted" =>
                 /\ state \in { SetStart, SetEnd }
                 /\ state' \in { SetStart, SetEnd } \ { state }
           /\ tapeOp' = "rejected" =>
                 UNCHANGED << state, startPosition, endPosition,
                              startMarker, endMarker, line >> ]_vars

\* the end of a measurement was set by an accepted pointer-up, with markers
\* of another style than the first ones
C27_Witness ==
    /\ tapeOp = "accepted"
    /\ state = SetStart
    /\ startPosition # endPosition
    /\ startMarker.visible /\ endMarker.visible /\ line
    /\ startMarker.style # Sphere
    /\ endMarker.position = endPosition

----------------------------------------------------------------------------
(* Properties of PropertyTags.                                             *)

\* C28: from an empty property value, after any onAddTag and onRemoveTag
\* calls the selected tags parsed from the property value hold no duplicate
\* and no empty entry, and onAddTag of a tag that is already selected
\* leaves the property value unchanged.
C28_TagsDuplicateFree ==
    /\ [](\A i \in 1 .. Len(selectedTags) :
            /\ selectedTags[i] # << >>
            /\ \A k \in 1 .. Len(selectedTags) :
                  selectedTags[i] = selectedTags[k] => i = k)
    /\ [][ (tagOp' = "add" /\ wasSelected')
              => propertyValue' = propertyValue ]_vars
====
